---- MODULE Spec2Model ----
(***************************************************************************)
(* Model of the social-image generator: the driver loop of src/src/index.ts *)
(* (final revision) and createSocialImage / saveImageToFile /              *)
(* uploadToCloudinary of src/unnamed/part_003 (final revision of          *)
(* social-sharing.ts).                                                     *)
(*                                                                         *)
(* Every async function is a task whose position (pc) only advances at an  *)
(* await; the code between two awaits runs to completion (variable         *)
(* running names the task that holds the JavaScript thread).  The          *)
(* rasterizer (skia-canvas) and the remote store (Cloudinary) are the      *)
(* environment: the rasterizer's text measurement is a function chosen in  *)
(* the initial state, the store answers queries and uploads with success   *)
(* or failure.  loadImage, toBuffer and saveAs are taken to succeed.        *)
(***************************************************************************)
EXTENDS Integers, Sequences, FiniteSets, TLC

\* ---------------------------------------------------------------- bounds
\* Longest list of post names the driver iterates over.
MaxPosts == 2
\* A measurement profile differs from its base value at no more than
\* MaxFlips sizes of the ladder.
MaxFlips == 2
\* A search that does not end is followed for MaxExtra measurements beyond
\* the length of the ladder.
MaxExtra == 2

\* ------------------------------------------------------- program constants
width == 1200
height == 630
textX == 50
textY == 100
maxWidth == width - textX * 2
StartFontSize == 96
MinFontSize == 24
FontStep == 4
density == 2
folder == "og-images"
format == "png"
NotFoundCode == 404
\* HTTP codes of a failed query that are not "not found". The code tests
\* the status against 404 only, so one other status stands for all of them.
OtherCodes == {500}

\* The sizes the search can visit: 96, 92, ..., 24.
Ladder == {s \in MinFontSize..StartFontSize : (StartFontSize - s) % FontStep = 0}

\* ------------------------------------------------------------------ titles
\* A title is a sequence of characters.  The pool has two titles with the
\* same slug and one with another slug; the empty title is an input of the
\* fitter.
EmptyTitle == << >>
Titles == { <<"a">>, <<"A", "?">>, <<"b">> }

Lower(c) == CASE c = "A" -> "a" [] c = "B" -> "b" [] OTHER -> c
IsAlnum(c) == c \in {"a", "b", "A", "B"}

RECURSIVE SlugChars(_)
SlugChars(s) ==
    IF s = << >> THEN << >>
    ELSE LET c == Head(s)
             rest == SlugChars(Tail(s))
         IN  IF c = " " THEN <<"-">> \o rest
             ELSE IF IsAlnum(c) THEN <<Lower(c)>> \o rest
             ELSE rest

\* slugify(name, {lower: true, strict: true, ...}): spaces become dashes,
\* characters that are not alphanumeric are stripped, the rest is lowered.
slugifyName(name) == SlugChars(name)

Slugs == {slugifyName(n) : n \in Titles}

\* ------------------------------------------------------------- rasterizer
\* A measurement profile says at which ladder sizes the wrapped title is
\* within the available height: base, inverted at the sizes in flips.  A
\* fitting layout is slack below the available height, an overflowing one
\* one unit above it.
FlipSets == {f \in SUBSET Ladder : Cardinality(f) <= MaxFlips}
Profiles == [base : BOOLEAN, flips : FlipSets, slack : {0, 1}]
AllFit == [base |-> TRUE, flips |-> {}, slack |-> 1]
NoneFit == [base |-> FALSE, flips |-> {}, slack |-> 1]
MainProfiles == {AllFit, NoneFit}

ProfileFits(p, s) == (p.base /\ s \notin p.flips) \/ (~p.base /\ s \in p.flips)
ProfileHeight(p, s) ==
    IF ProfileFits(p, s) THEN (height - textY) - p.slack ELSE (height - textY) + 1

VARIABLES
    postNames,      \* the list the driver iterates over
    kinds,          \* the calls the driver makes per post
    metrics,        \* rasterizer: title -> measurement profile
    rev,            \* task -> revision of social-sharing.ts the call runs
    store,          \* remote store: key -> record or Absent
    i,              \* driver: index of the next post to start
    running,        \* task holding the thread, MainScript or NoTask
    crashed,        \* the process was terminated by an uncaught error
    pc,             \* task -> position
    fontSize,       \* task -> fontSize of createSocialImage
    textFits,       \* task -> textFits of createSocialImage
    ctxFont,        \* task -> ctx.font (a size, 0 before it is set)
    measures,       \* task -> the measureText calls so far
    drawn,          \* task -> draw operations on the canvas so far
    buffer,         \* task -> buffer of uploadToCloudinary
    hash,           \* task -> hash of uploadToCloudinary
    response,       \* task -> answer of the store to the query
    existingResources, \* task -> existingResources of uploadToCloudinary
    outcome,        \* task -> how the call ended (console line written)
    upload,         \* task -> the upload issued by the call
    errors,         \* task -> what became of an error of the task
    pred,           \* task -> publish calls that had returned when it began
    after,          \* task -> publish calls that had returned, their upload
                    \*         completed, when it began
    calls,          \* task -> number of queries, uploads and error reports
    imagesDir,      \* ./images exists
    files           \* files saved under ./images

vars == <<postNames, kinds, metrics, rev, store, i, running, crashed, pc, fontSize,
          textFits, ctxFont, measures, drawn, buffer, hash,
          response, existingResources, outcome, upload, errors, pred, after,
          calls, imagesDir, files>>

fitVars == <<fontSize, textFits, ctxFont, measures, drawn>>
pubVars == <<buffer, hash, response, existingResources, outcome, upload, pred,
             after, calls>>
envVars == <<postNames, kinds, metrics, rev>>

Kinds == {"save", "upload"}
\* The revisions of social-sharing.ts: src/unnamed/part_002 (createSoicalImage)
\* and src/unnamed/part_003 (createSocialImage).
EarlierRevision == "part_002"
FinalRevision == "part_003"
MainScript == <<0, "main">>
NoTask == <<0, "none">>
Tasks == (1..MaxPosts) \X Kinds
Active == {t \in Tasks : t[1] <= Len(postNames) /\ t[2] \in kinds}
UploadTasks == {t \in Tasks : t[2] = "upload"}
Name(t) == postNames[t[1]]

\* ctx.measureText(name, w) at font size fs: the heights of the wrapped
\* lines.  The empty title wraps to no line.
measureText(name, fs, w) ==
    IF name = EmptyTitle THEN << >>
    ELSE LET total == ProfileHeight(metrics[name], fs)
         IN  <<fs, total - fs>>

RECURSIVE SumHeights(_)
\* metrics.lines.reduce((acc, line) => acc + line.height, 0)
SumHeights(lines) ==
    IF lines = << >> THEN 0 ELSE Head(lines) + SumHeights(Tail(lines))

\* ------------------------------------------------------------ remote store
toBuffer_Timestamped(ops, fmt, dens) ==
    <<fmt, dens, ops, Cardinality({u \in Tasks : pc[u] = "done"})>>

\* canvas.toBuffer(format, {density}): the encoding is a function of the
\* canvas content, the format and the density.
toBuffer(ops, fmt, dens) == <<fmt, dens, ops>>

\* createHash('md5').update(buffer).digest('hex'); the digest is taken to be
\* collision free on the buffers of the model.
getImageHash(buf) == <<"md5", buf>>

NoBytes == << >>
NoHash == << >>
Undefined == [found |-> FALSE, bytes |-> NoBytes, hash |-> NoHash]
Resource(b, h) == [found |-> TRUE, bytes |-> b, hash |-> h]

Key(dir, public_id) == <<dir, public_id>>
Keys == {Key(folder, s) : s \in Slugs \cup {slugifyName(EmptyTitle)}}

\* The canvas of a title drawn at font size fs.
Rendered(name, fs) ==
    << [op |-> "drawImage", text |-> << >>, font |-> 0, w |-> width],
       [op |-> "strokeText", text |-> name, font |-> fs, w |-> maxWidth],
       [op |-> "fillText", text |-> name, font |-> fs, w |-> maxWidth] >>

\* What a key may hold before the run: nothing, an object uploaded without
\* a hash, or the object a previous run uploaded for the title spelled like
\* the slug, drawn at the largest size.
PriorBytes(k) == toBuffer(Rendered(k[2], StartFontSize), format, density)
PriorRecords(k) ==
    { Undefined,
      Resource(PriorBytes(k), NoHash),
      Resource(PriorBytes(k), getImageHash(PriorBytes(k))) }

NoResponse == [key |-> << >>, ok |-> FALSE, http_code |-> 0,
               resource |-> Undefined]
\* cloudinary.api.resource(key): the record, 404 when there is none, or a
\* failure with another code.
Responses(k) ==
    (IF store[k].found
       THEN {[key |-> k, ok |-> TRUE, http_code |-> 200,
              resource |-> store[k]]}
       ELSE {[key |-> k, ok |-> FALSE, http_code |-> NotFoundCode,
              resource |-> Undefined]})
    \cup {[key |-> k, ok |-> FALSE, http_code |-> c, resource |-> Undefined] :
              c \in OtherCodes}

NoUpload == [status |-> "none", key |-> << >>, bytes |-> NoBytes, hash |-> NoHash]

\* ------------------------------------------------------------ initial state
RECURSIVE ListsUpTo(_)
ListsUpTo(n) ==
    IF n = 0 THEN {<< >>}
    ELSE LET shorter == ListsUpTo(n - 1)
         IN  shorter \cup {Append(l, x) : l \in {m \in shorter : Len(m) = n - 1}, x \in Titles}

Used(names) == {names[k] : k \in 1..Len(names)}

TaskInit ==
    /\ i = 1
    /\ running = MainScript
    /\ crashed = FALSE
    /\ pc = [t \in Tasks |-> "idle"]
    /\ fontSize = [t \in Tasks |-> 0]
    /\ textFits = [t \in Tasks |-> FALSE]
    /\ ctxFont = [t \in Tasks |-> 0]
    /\ measures = [t \in Tasks |-> << >>]
    /\ drawn = [t \in Tasks |-> << >>]
    /\ buffer = [t \in Tasks |-> NoBytes]
    /\ hash = [t \in Tasks |-> NoHash]
    /\ response = [t \in Tasks |-> NoResponse]
    /\ existingResources = [t \in Tasks |-> Undefined]
    /\ outcome = [t \in Tasks |-> "none"]
    /\ upload = [t \in Tasks |-> NoUpload]
    /\ errors = [t \in Tasks |-> "none"]
    /\ pred = [t \in Tasks |-> {}]
    /\ after = [t \in Tasks |-> {}]
    /\ calls = [t \in Tasks |-> [query |-> 0, upload |-> 0, report |-> 0]]
    /\ imagesDir = FALSE
    /\ files = {}

\* A batch: a non-empty list of titles, each measured as fitting everywhere
\* or nowhere, against a store holding any prior records.
Init ==
    /\ TaskInit
    /\ rev = [t \in Tasks |-> FinalRevision]
    /\ kinds = Kinds
    /\ postNames \in {l \in ListsUpTo(MaxPosts) : Len(l) >= 1}
    /\ metrics \in {m \in [Titles -> MainProfiles] :
                        \A n \in Titles \ Used(postNames) : m[n] = AllFit}
    /\ store \in {st \in [Keys -> UNION {PriorRecords(k) : k \in Keys}] :
                      \A k \in Keys :
                          /\ st[k] \in PriorRecords(k)
                          /\ k[2] \notin {slugifyName(n) : n \in Used(postNames)}
                                => ~st[k].found}

\* A batch that is only uploaded (createAndSaveLocally commented out, as in
\* the driver of src/unnamed/part_004), every title fitting at the first
\* size, against a store holding any prior records.
InitPub ==
    /\ TaskInit
    /\ rev = [t \in Tasks |-> FinalRevision]
    /\ kinds = {"upload"}
    /\ postNames \in {l \in ListsUpTo(MaxPosts) : Len(l) >= 1}
    /\ metrics = [n \in Titles |-> AllFit]
    /\ store \in {st \in [Keys -> UNION {PriorRecords(k) : k \in Keys}] :
                      \A k \in Keys :
                          /\ st[k] \in PriorRecords(k)
                          /\ k[2] \notin {slugifyName(n) : n \in Used(postNames)}
                                => ~st[k].found}

\* A batch that is only uploaded and whose titles all have the same slug,
\* so that every call publishes to one identifier.
SeqTitles == {n \in Titles : slugifyName(n) = slugifyName(<<"a">>)}
InitSeq ==
    /\ TaskInit
    /\ rev = [t \in Tasks |-> FinalRevision]
    /\ kinds = {"upload"}
    /\ postNames \in {l \in ListsUpTo(MaxPosts) :
                          Len(l) >= 1 /\ Used(l) \subseteq SeqTitles}
    /\ metrics = [n \in Titles |-> AllFit]
    /\ store \in {st \in [Keys -> UNION {PriorRecords(k) : k \in Keys}] :
                      \A k \in Keys :
                          /\ st[k] \in PriorRecords(k)
                          /\ k[2] \notin {slugifyName(n) : n \in Used(postNames)}
                                => ~st[k].found}

\* One call of each kind for one title, the empty title or a title with any
\* measurement profile, against an empty store.
FitTitles == {<<"b">>, EmptyTitle}
InitFit ==
    /\ TaskInit
    /\ rev = [t \in Tasks |-> FinalRevision]
    /\ kinds = Kinds
    /\ postNames \in {<<n>> : n \in FitTitles}
    /\ metrics \in {[n \in Titles |-> IF n \in Used(postNames) THEN p ELSE AllFit] :
                        p \in IF postNames[1] = EmptyTitle THEN {AllFit} ELSE Profiles}
    /\ store = [k \in Keys |-> Undefined]

\* One title, the empty title or a title with any measurement profile,
\* that is only saved.
InitFitLive ==
    /\ TaskInit
    /\ rev = [t \in Tasks |-> FinalRevision]
    /\ kinds = {"save"}
    /\ postNames \in {<<n>> : n \in FitTitles}
    /\ metrics \in {[n \in Titles |-> IF n \in Used(postNames) THEN p ELSE AllFit] :
                        p \in IF postNames[1] = EmptyTitle THEN {AllFit} ELSE Profiles}
    /\ store = [k \in Keys |-> Undefined]

\* One title saved twice, first by the earlier and then by the final
\* revision, under any measurement profile.
InitRev ==
    /\ TaskInit
    /\ rev = [t \in Tasks |-> IF t[1] = 1 THEN EarlierRevision ELSE FinalRevision]
    /\ kinds = {"save"}
    /\ postNames \in {<<n, n>> : n \in FitTitles}
    /\ metrics \in {[n \in Titles |-> IF n \in Used(postNames) THEN p ELSE AllFit] :
                        p \in IF postNames[1] = EmptyTitle THEN {AllFit} ELSE Profiles}
    /\ store = [k \in Keys |-> Undefined]

\* A batch of distinct titles that is only saved (the driver of
\* src/index.ts), each title fitting everywhere, nowhere, everywhere below
\* the first size or at the last size only.
FitsProfiles ==
    { AllFit, NoneFit,
      [base |-> TRUE, flips |-> {StartFontSize}, slack |-> 0],
      [base |-> FALSE, flips |-> {MinFontSize}, slack |-> 0] }
Distinct(l) == \A a, b \in 1..Len(l) : a # b => l[a] # l[b]
InitFits ==
    /\ TaskInit
    /\ rev = [t \in Tasks |-> FinalRevision]
    /\ kinds = {"save"}
    /\ postNames \in {l \in ListsUpTo(MaxPosts) : Len(l) >= 1 /\ Distinct(l)}
    /\ metrics \in {m \in [Titles -> FitsProfiles] :
                        \A n \in Titles \ Used(postNames) : m[n] = AllFit}
    /\ store = [k \in Keys |-> Undefined]

\* ------------------------------------------------------------------ driver
\* for (const post of postNames) { createAndSaveLocally(post);
\* createAndUpload(post); }: neither call is awaited; each runs up to its
\* first await (loadImage) before the loop goes on.
DriverStep ==
    /\ ~crashed
    /\ running = MainScript
    /\ i <= Len(postNames)
    /\ pc' = [t \in Tasks |->
                IF t[1] = i /\ t[2] \in kinds THEN "loadImage" ELSE pc[t]]
    /\ i' = i + 1
    /\ running' = IF i = Len(postNames) THEN NoTask ELSE MainScript
    /\ UNCHANGED <<envVars, store, crashed, fitVars, pubVars, errors,
                   imagesDir, files>>

\* -------------------------------------------------------- createSocialImage
LoopGuard_SkipsMin(tf, fs) == ~tf /\ fs > MinFontSize

\* while (!textFits && fontSize >= 24)
LoopGuard(tf, fs) == ~tf /\ fs >= MinFontSize

\* part_002: while (!textFits || fontSize < 24)
LoopGuardEarlier(tf, fs) == ~tf \/ fs < MinFontSize

\* The loop condition of the revision the call runs.
LoopCond(t) ==
    IF rev[t] = EarlierRevision
      THEN LoopGuardEarlier(textFits[t], fontSize[t])
      ELSE LoopGuard(textFits[t], fontSize[t])

Overflows_Reversed(total) == total < height - textY
Overflows_Inclusive(total) == total >= height - textY

\* if (totalTextHeight > height - textY)
Overflows(total) == total > height - textY

Decrement_Double(fs) == fs - 2 * FontStep
Decrement_ByOne(fs) == fs - 1
Decrement_None(fs) == fs

\* fontSize -= 4
Decrement(fs) == fs - FontStep

ThrowCond_OffByStep(tf, fs) == ~tf /\ fs < MinFontSize - FontStep
ThrowCond_Never(tf, fs) == FALSE

\* if (!textFits && fontSize < 24) throw
ThrowCond(tf, fs) == ~tf /\ fs < MinFontSize

\* ctx.measureText(name, maxWidth - textX)
MeasureWidth == maxWidth - textX

TitleOps_FillFirst(name, font) ==
    << [op |-> "fillText", text |-> name, font |-> font, w |-> maxWidth],
       [op |-> "strokeText", text |-> name, font |-> font, w |-> maxWidth] >>

\* ctx.strokeText(name, textX, textY, maxWidth);
\* ctx.fillText(name, textX, textY, maxWidth); with the font in effect.
TitleOps(name, font) ==
    << [op |-> "strokeText", text |-> name, font |-> font, w |-> maxWidth],
       [op |-> "fillText", text |-> name, font |-> font, w |-> maxWidth] >>

\* await loadImage resolves: the background is drawn and the search begins.
LoadImageDone(t) ==
    /\ ~crashed
    /\ running = NoTask
    /\ pc[t] = "loadImage"
    /\ drawn' = [drawn EXCEPT ![t] =
            <<[op |-> "drawImage", text |-> << >>, font |-> 0, w |-> width]>>]
    /\ fontSize' = [fontSize EXCEPT ![t] = StartFontSize]
    /\ textFits' = [textFits EXCEPT ![t] = FALSE]
    /\ pc' = [pc EXCEPT ![t] = "loop"]
    /\ running' = t
    /\ UNCHANGED <<envVars, store, i, crashed, ctxFont, measures, pubVars,
                   errors, imagesDir, files>>

\* One iteration of the while loop.
LoopStep(t) ==
    /\ ~crashed
    /\ running = t
    /\ pc[t] = "loop"
    /\ LoopCond(t)
    /\ Len(measures[t]) < Cardinality(Ladder) + MaxExtra
    /\ LET w == MeasureWidth
           lines == measureText(Name(t), fontSize[t], w)
           totalTextHeight == SumHeights(lines)
       IN  /\ ctxFont' = [ctxFont EXCEPT ![t] = fontSize[t]]
           /\ measures' = [measures EXCEPT ![t] =
                   Append(@, [size |-> fontSize[t], w |-> w,
                              total |-> totalTextHeight])]
           /\ IF Overflows(totalTextHeight)
                 THEN /\ fontSize' = [fontSize EXCEPT ![t] = Decrement(@)]
                      /\ UNCHANGED textFits
                 ELSE /\ textFits' = [textFits EXCEPT ![t] = TRUE]
                      /\ UNCHANGED fontSize
    /\ UNCHANGED <<envVars, store, i, running, crashed, pc, drawn, pubVars,
                   errors, imagesDir, files>>

\* The loop is left: the title is too long and createSocialImage throws,
\* which rejects the unawaited promise of the driver's call (the runtime
\* then either only warns or terminates the process); or the title is
\* stroked and filled and the caller goes on to its next await.
LoopExit(t) ==
    /\ ~crashed
    /\ running = t
    /\ pc[t] = "loop"
    /\ ~LoopCond(t)
    /\ running' = NoTask
    /\ IF ThrowCond(textFits[t], fontSize[t])
         THEN /\ pc' = [pc EXCEPT ![t] = "rejected"]
              /\ errors' = [errors EXCEPT ![t] = "unhandledRejection"]
              /\ crashed' \in BOOLEAN
              /\ UNCHANGED <<drawn, pred, after, imagesDir>>
         ELSE /\ drawn' = [drawn EXCEPT ![t] =
                                @ \o TitleOps(Name(t), ctxFont[t])]
              /\ IF t[2] = "upload"
                    THEN /\ pc' = [pc EXCEPT ![t] = "toBuffer"]
                         /\ pred' = [pred EXCEPT ![t] =
                                {u \in UploadTasks : pc[u] = "done"}]
                         /\ after' = [after EXCEPT ![t] =
                                {u \in UploadTasks :
                                    /\ pc[u] = "done"
                                    /\ upload[u].status \in {"none", "ok"}}]
                         /\ UNCHANGED imagesDir
                    ELSE /\ pc' = [pc EXCEPT ![t] = "saveAs"]
                         /\ imagesDir' = TRUE
                         /\ UNCHANGED <<pred, after>>
              /\ UNCHANGED <<errors, crashed>>
    /\ UNCHANGED <<envVars, store, i, fontSize, textFits, ctxFont, measures,
                   buffer, hash, response, existingResources, outcome,
                   upload, calls, files>>

\* ---------------------------------------------------------- saveImageToFile
\* await canvas.saveAs(join('./images', slug.format)) resolves.
SaveDone(t) ==
    /\ ~crashed
    /\ running = NoTask
    /\ pc[t] = "saveAs"
    /\ files' = files \cup {<<slugifyName(Name(t)), format>>}
    /\ pc' = [pc EXCEPT ![t] = "done"]
    /\ UNCHANGED <<envVars, store, i, running, crashed, fitVars, pubVars,
                   errors, imagesDir>>

\* ------------------------------------------------------- uploadToCloudinary
Rethrows_Never(r) == FALSE
Rethrows_Always(r) == TRUE

\* .catch(error => { if (error.error.http_code !== 404) throw error; })
Rethrows(r) == r.http_code # NotFoundCode

QueryKey_NoId(dir, public_id) == Key(dir, slugifyName(EmptyTitle))

\* cloudinary.api.resource(`${folder}/${public_id}`, ...)
QueryKey(dir, public_id) == Key(dir, public_id)

UploadKey_NoId(dir, public_id) == Key(dir, slugifyName(EmptyTitle))

\* upload_stream({public_id, folder, ...}, ...)
UploadKey(dir, public_id) == Key(dir, public_id)

SkipCond_AnyRecord(existing, h) == existing.found
SkipCond_Never(existing, h) == FALSE

\* existingResources && existingResources.context?.custom?.hash === hash
SkipCond(existing, h) == existing.found /\ existing.hash = h

UploadContext_None(h) == NoHash

\* context: `hash=${hash}`
UploadContext(h) == h

AfterCatch_Retry == "toBuffer"

\* } catch (error) { console.error(error); }: the error is logged and the
\* function ends.
AfterCatch == "done"

\* await canvas.toBuffer(format, {density: 2}) resolves: the hash is taken
\* and the store is queried for folder/public_id.
ToBufferDone(t) ==
    /\ ~crashed
    /\ running = NoTask
    /\ pc[t] = "toBuffer"
    /\ LET buf == toBuffer(drawn[t], format, density)
       IN  /\ buffer' = [buffer EXCEPT ![t] = buf]
           /\ hash' = [hash EXCEPT ![t] = getImageHash(buf)]
    /\ calls' = [calls EXCEPT ![t].query = @ + 1]
    /\ pc' = [pc EXCEPT ![t] = "query"]
    /\ UNCHANGED <<envVars, store, i, running, crashed, fitVars, response,
                   existingResources, outcome, upload, pred, after, errors,
                   imagesDir, files>>

\* The query is answered.  A failure other than 404 is rethrown by the
\* catch handler and logged by the catch block; otherwise the call either
\* skips, or hands the buffer to upload_stream and returns without waiting
\* for the upload.
QueryDone(t) ==
    /\ ~crashed
    /\ running = NoTask
    /\ pc[t] = "query"
    /\ LET public_id == slugifyName(Name(t))
       IN \E r \in Responses(QueryKey(folder, public_id)) :
          /\ response' = [response EXCEPT ![t] = r]
          /\ IF ~r.ok /\ Rethrows(r)
               THEN /\ outcome' = [outcome EXCEPT ![t] = "Failed"]
                    /\ errors' = [errors EXCEPT ![t] = "caught"]
                    /\ calls' = [calls EXCEPT ![t].report = @ + 1]
                    /\ pc' = [pc EXCEPT ![t] = AfterCatch]
                    /\ UNCHANGED <<existingResources, upload>>
               ELSE LET existing == IF r.ok THEN r.resource ELSE Undefined
                    IN  /\ existingResources' =
                               [existingResources EXCEPT ![t] = existing]
                        /\ pc' = [pc EXCEPT ![t] = "done"]
                        /\ UNCHANGED errors
                        /\ IF SkipCond(existing, hash[t])
                             THEN /\ outcome' = [outcome EXCEPT ![t] = "Skipped"]
                                  /\ UNCHANGED <<upload, calls>>
                             ELSE /\ outcome' = [outcome EXCEPT ![t] = "Uploaded"]
                                  /\ upload' = [upload EXCEPT ![t] =
                                         [status |-> "inflight",
                                          key |-> UploadKey(folder, public_id),
                                          bytes |-> buffer[t],
                                          hash |-> UploadContext(hash[t])]]
                                  /\ calls' = [calls EXCEPT ![t].upload = @ + 1]
    /\ UNCHANGED <<envVars, store, i, running, crashed, fitVars, buffer, hash,
                   pred, after, imagesDir, files>>

Overwrite_KeepExisting(st, k, rec) ==
    IF st[k].found THEN st ELSE [st EXCEPT ![k] = rec]

\* upload_stream({public_id, folder, format, overwrite: true, context}): the
\* uploaded object and its context replace whatever the key holds.
Overwrite(st, k, rec) == [st EXCEPT ![k] = rec]

\* The upload completes and its callback runs, after uploadToCloudinary has
\* returned.  On success the object and its hash replace the record; on
\* failure the callback throws outside every try block, which terminates
\* the process.
UploadDone(t) ==
    /\ ~crashed
    /\ running = NoTask
    /\ upload[t].status = "inflight"
    /\ \E err \in BOOLEAN :
          IF err
            THEN /\ upload' = [upload EXCEPT ![t].status = "err"]
                 /\ errors' = [errors EXCEPT ![t] = "uncaught"]
                 /\ calls' = [calls EXCEPT ![t].report = @ + 1]
                 /\ crashed' = TRUE
                 /\ UNCHANGED store
            ELSE /\ upload' = [upload EXCEPT ![t].status = "ok"]
                 /\ store' = Overwrite(store, upload[t].key,
                                Resource(upload[t].bytes, upload[t].hash))
                 /\ UNCHANGED <<errors, calls, crashed>>
    /\ UNCHANGED <<envVars, i, running, pc, fitVars, buffer, hash, response,
                   existingResources, outcome, pred, after, imagesDir, files>>

Next ==
    \/ DriverStep
    \/ \E t \in Tasks : LoadImageDone(t)
    \/ \E t \in Tasks : LoopStep(t)
    \/ \E t \in Tasks : LoopExit(t)
    \/ \E t \in Tasks : SaveDone(t)
    \/ \E t \in Tasks : ToBufferDone(t)
    \/ \E t \in Tasks : QueryDone(t)
    \/ \E t \in Tasks : UploadDone(t)

Spec == Init /\ [][Next]_vars

\* The steps of a batch that is only uploaded.
NextPub ==
    \/ DriverStep
    \/ \E t \in Tasks : LoadImageDone(t)
    \/ \E t \in Tasks : LoopStep(t)
    \/ \E t \in Tasks : LoopExit(t)
    \/ \E t \in Tasks : ToBufferDone(t)
    \/ \E t \in Tasks : QueryDone(t)
    \/ \E t \in Tasks : UploadDone(t)

SpecPub == InitPub /\ [][NextPub]_vars

SpecSeq == InitSeq /\ [][NextPub]_vars

SpecFit == InitFit /\ [][Next]_vars

\* The steps of a batch that is only saved.
NextFits ==
    \/ DriverStep
    \/ \E t \in Tasks : LoadImageDone(t)
    \/ \E t \in Tasks : LoopStep(t)
    \/ \E t \in Tasks : LoopExit(t)
    \/ \E t \in Tasks : SaveDone(t)

SpecFits == InitFits /\ [][NextFits]_vars

SpecRev == InitRev /\ [][NextFits]_vars

\* One saved title under any measurement profile.  The while loop is
\* synchronous code: the thread that entered it runs its iterations and
\* its exit without yielding.
SpecFitLive ==
    /\ InitFitLive
    /\ [][NextFits]_vars
    /\ \A t \in Tasks : WF_vars(LoopStep(t) \/ LoopExit(t))

\* ===================================================================
\* Properties
\* ===================================================================
\* The summed line heights of a title measured at size s, as the search
\* measures them, are within the available height.
TotalAt(name, s) == SumHeights(measureText(name, s, MeasureWidth))
FitsAt(name, s) == TotalAt(name, s) <= height - textY

LoopLeft(t) == pc[t] \notin {"idle", "loadImage", "loop"}
FitSucceeded(t) == pc[t] \in {"toBuffer", "query", "saveAs", "done"}
FitFailed(t) == pc[t] = "rejected"
\* The font size with which the title was stroked.
AcceptedSize(t) == drawn[t][2].font

\* C1: when the fit succeeds, the accepted font size is a ladder size that
\* fits, and no larger ladder size fits.
C1_LargestFittingSize ==
    \A t \in Tasks :
        FitSucceeded(t) =>
            /\ textFits[t]
            /\ AcceptedSize(t) = fontSize[t]
            /\ AcceptedSize(t) \in Ladder
            /\ FitsAt(Name(t), AcceptedSize(t))
            /\ \A s \in Ladder : s > AcceptedSize(t) => ~FitsAt(Name(t), s)

\* A fit accepted below the top of the ladder although a still smaller
\* size fits as well.
C1_Witness ==
    \E t \in Tasks :
        /\ FitSucceeded(t)
        /\ AcceptedSize(t) < StartFontSize
        /\ \E s \in Ladder : s < AcceptedSize(t) /\ FitsAt(Name(t), s)

\* C2: a title that fits at size 24 is never rejected: the search stays on
\* the ladder, measures at most once per ladder size and ends in success;
\* and no fit succeeds with a size at which the total height exceeds the
\* available height.
C2_FitsAtMinSucceeds ==
    \A t \in Tasks :
        /\ FitSucceeded(t) =>
              /\ AcceptedSize(t) \in Ladder
              /\ TotalAt(Name(t), AcceptedSize(t)) <= height - textY
        /\ (t \in Active /\ FitsAt(Name(t), MinFontSize)) =>
              /\ ~FitFailed(t)
              /\ Len(measures[t]) <= Cardinality(Ladder)
              /\ pc[t] = "loop" => fontSize[t] \in Ladder
              /\ LoopLeft(t) => FitSucceeded(t)

\* A title that fits at 24 and at no other size, accepted at 24.
C2_Witness ==
    \E t \in Tasks :
        /\ FitSucceeded(t)
        /\ AcceptedSize(t) = MinFontSize
        /\ \A s \in Ladder \ {MinFontSize} : ~FitsAt(Name(t), s)

\* C3: once the search is over, the fit has failed with the overflow error
\* exactly when no ladder size fits.
C3_OverflowIffNothingFits ==
    \A t \in Tasks :
        LoopLeft(t) =>
            (FitFailed(t) <=> \A s \in Ladder : ~FitsAt(Name(t), s))

\* A fit that failed after measuring every ladder size.
C3_Witness ==
    \E t \in Tasks :
        /\ FitFailed(t)
        /\ Len(measures[t]) = Cardinality(Ladder)
        /\ errors[t] = "unhandledRejection"

\* ------------------------------------------------------------- publishing
PublishKey(t) == Key(folder, slugifyName(Name(t)))
Publishers == UploadTasks \cap Active
Returned(t) == t \in Publishers /\ pc[t] = "done"
Issued(t) == upload[t].status # "none"
QueryFailed(t) == ~response[t].ok /\ response[t].http_code # NotFoundCode
\* b was called after a had returned, for the same identifier, and no other
\* call publishes to that identifier.
InSuccession(a, b) ==
    /\ a # b
    /\ Returned(a) /\ Returned(b)
    /\ a \in pred[b]
    /\ PublishKey(a) = PublishKey(b)
    /\ \A c \in Publishers \ {a, b} : PublishKey(c) # PublishKey(a)

\* C4: two publish calls in succession for one identifier with identical
\* content, the first finding no record, no store operation failing: the
\* first uploads, the second skips, one upload is issued in all.
C4_SecondIdenticalCallSkips ==
    \A a, b \in Publishers :
        ( /\ InSuccession(a, b)
          /\ buffer[a] = buffer[b]
          /\ response[a].http_code = NotFoundCode
          /\ ~QueryFailed(b)
          /\ upload[a].status # "err" /\ upload[b].status # "err" )
        => /\ outcome[a] = "Uploaded"
           /\ outcome[b] = "Skipped"
           /\ Cardinality({t \in {a, b} : Issued(t)}) = 1

\* C5: a publish call that found no record and has returned (its upload
\* not failed, no other call publishing to the identifier) ended as
\* Uploaded, and the store holds the hash of its content.
C5_FreshPublishIsStored ==
    \A t \in Publishers :
        ( /\ Returned(t)
          /\ response[t].http_code = NotFoundCode
          /\ upload[t].status # "err"
          /\ \A c \in Publishers \ {t} : PublishKey(c) # PublishKey(t) )
        => /\ outcome[t] = "Uploaded"
           /\ store[PublishKey(t)].found
           /\ store[PublishKey(t)].hash = hash[t]

\* C6: two publish calls in succession for one identifier with different
\* content, the second finding a record and no upload failing: the second
\* uploads and the store then holds the hash of the new content.
C6_ChangedContentIsStored ==
    \A a, b \in Publishers :
        ( /\ InSuccession(a, b)
          /\ buffer[a] # buffer[b]
          /\ response[b].ok
          /\ upload[a].status # "err" /\ upload[b].status # "err" )
        => /\ outcome[b] = "Uploaded"
           /\ Issued(b)
           /\ store[PublishKey(b)].hash = hash[b]

\* C7: a publish call whose query failed with a code other than 404 ends
\* as Failed with the error logged, has issued no upload, and the step in
\* which it ends leaves the store as it was.
C7_FailedQueryState ==
    \A t \in Publishers :
        (pc[t] = "done" /\ QueryFailed(t)) =>
            /\ outcome[t] = "Failed"
            /\ errors[t] = "caught"
            /\ ~Issued(t)
C7_FailedQueryStep ==
    \A t \in Publishers :
        (pc[t] = "query" /\ pc'[t] = "done" /\ ~response'[t].ok
            /\ response'[t].http_code # NotFoundCode)
        => (store' = store /\ upload' = upload)
C7_FailedQueryWithholdsUpload ==
    [](C7_FailedQueryState) /\ [][C7_FailedQueryStep]_vars

\* A call ended as Failed on a query error although a record exists.
C7_Witness ==
    \E t \in Publishers :
        /\ pc[t] = "done"
        /\ response[t].http_code \in OtherCodes
        /\ outcome[t] = "Failed"
        /\ store[PublishKey(t)].found

\* C8: a failure of one task never aborts the batch: the tasks of the
\* other posts are not cut off by a terminated process before they have
\* reached their own outcome.
C8_FailureNeverAbortsBatch ==
    \A t \in Active :
        errors[t] # "none" =>
            \A u \in Active :
                (u[1] # t[1] /\ crashed) => pc[u] \in {"done", "rejected"}

\* C9: no error of a publish call escapes uncaught: a failed upload is
\* caught by the call's catch block and logged.
C9_PublishErrorsAreCaught ==
    \A t \in Publishers :
        /\ errors[t] # "uncaught"
        /\ upload[t].status = "err" => errors[t] = "caught"

\* C10: a returned publish call has one outcome, and the outcome reflects
\* the finished store interaction: Uploaded only when the upload has
\* completed, Failed when the upload failed.
C10_OutcomeReflectsFinishedUpload ==
    \A t \in Publishers :
        pc[t] = "done" =>
            /\ outcome[t] \in {"Uploaded", "Skipped", "Failed"}
            /\ outcome[t] = "Uploaded" => upload[t].status = "ok"
            /\ upload[t].status = "err" => outcome[t] = "Failed"

\* ------------------------------------------------------ fit before publish
\* C11: a fit that failed with the overflow error hands no image to its
\* caller: the title was never stroked, nothing was encoded, queried,
\* uploaded or saved for it; a call is past createSocialImage, and a file
\* exists, only after a fit that ended with the title accepted and drawn.
C11_NoImageAfterOverflow ==
    /\ \A t \in Tasks :
          /\ FitFailed(t) =>
                /\ Len(drawn[t]) = 1
                /\ buffer[t] = NoBytes /\ hash[t] = NoHash
                /\ response[t] = NoResponse
                /\ outcome[t] = "none"
                /\ ~Issued(t)
          /\ (FitSucceeded(t) \/ buffer[t] # NoBytes \/ Issued(t)) =>
                /\ textFits[t]
                /\ drawn[t] = Rendered(Name(t), AcceptedSize(t))
                /\ \E k \in 1..Len(measures[t]) :
                      /\ measures[t][k].size = AcceptedSize(t)
                      /\ ~Overflows(measures[t][k].total)
    /\ \A f \in files :
          \E t \in Active :
              /\ t[2] = "save" /\ pc[t] = "done" /\ textFits[t]
              /\ f = <<slugifyName(Name(t)), format>>

\* The publishing call of a title that overflowed at every size has ended
\* in the overflow error, the process running on.
C11_Witness ==
    \E t \in UploadTasks :
        /\ FitFailed(t)
        /\ ~crashed
        /\ Len(measures[t]) = Cardinality(Ladder)
        /\ \A u \in Active : pc[u] \in {"done", "rejected"}

\* ------------------------------------------------- concurrent publish calls
\* The upload of t completes successfully in this step.
Completes(t) == upload[t].status = "inflight" /\ upload'[t].status = "ok"

\* C12: publish calls for one identifier are not serialised, and the record
\* stored is always the one written by the last upload to complete: a
\* completing upload replaces the record by its own bytes and hash whatever
\* the key holds, no other step changes a record, and so a key some upload
\* has completed on holds the record of one of the completed uploads.
C12_StoredIsOfCompletedUpload ==
    \A k \in Keys :
        (\E t \in Publishers : upload[t].status = "ok" /\ PublishKey(t) = k)
        => \E t \in Publishers :
              /\ upload[t].status = "ok" /\ PublishKey(t) = k
              /\ store[k] = Resource(buffer[t], hash[t])
C12_CompletingUploadWrites ==
    /\ \A t \in Publishers :
          Completes(t) => store'[PublishKey(t)] = Resource(buffer[t], hash[t])
    /\ (\A t \in Publishers : ~Completes(t)) => store' = store
C12_LastCompletedUploadWins ==
    [](C12_StoredIsOfCompletedUpload) /\ [][C12_CompletingUploadWrites]_vars

\* Two calls for one identifier with different images both found no record,
\* so both read before either wrote; both uploaded, both uploads completed,
\* and the store holds the record of one of them.
C12_Witness ==
    \E a, b \in Publishers :
        /\ a # b
        /\ PublishKey(a) = PublishKey(b)
        /\ buffer[a] # buffer[b]
        /\ response[a].http_code = NotFoundCode
        /\ response[b].http_code = NotFoundCode
        /\ upload[a].status = "ok" /\ upload[b].status = "ok"
        /\ store[PublishKey(a)] = Resource(buffer[a], hash[a])

\* C13: publish calls for different identifiers are independent.  A call
\* reads only the record of its own identifier and a record changes only
\* when an upload for its identifier completes; so the record of an
\* identifier with a single call is what that call alone leaves there (its
\* own bytes and hash once its upload has completed, until then the record
\* its query found), and a record no call publishes to stays absent.
C13_RecordOfSoleCall ==
    /\ \A t \in Publishers :
          (\A c \in Publishers \ {t} : PublishKey(c) # PublishKey(t)) =>
              /\ upload[t].status = "ok" =>
                    store[PublishKey(t)] = Resource(buffer[t], hash[t])
              /\ (upload[t].status # "ok" /\ response[t].ok) =>
                    store[PublishKey(t)] = response[t].resource
              /\ (upload[t].status # "ok"
                    /\ response[t].http_code = NotFoundCode) =>
                    ~store[PublishKey(t)].found
    /\ \A k \in Keys :
          (\A t \in Publishers : PublishKey(t) # k) => ~store[k].found
C13_OwnRecordOnly ==
    /\ \A k \in Keys :
          store'[k] # store[k] =>
              \E t \in Publishers : PublishKey(t) = k /\ Completes(t)
    /\ \A t \in Publishers :
          /\ (response'[t] # response[t] /\ response'[t].ok) =>
                response'[t].resource = store[PublishKey(t)]
          /\ (response'[t] # response[t]
                /\ response'[t].http_code = NotFoundCode) =>
                ~store[PublishKey(t)].found
          /\ (~Issued(t) /\ upload'[t] # upload[t]) =>
                upload'[t].key = PublishKey(t)
C13_DifferentIdentifiersIndependent ==
    [](C13_RecordOfSoleCall) /\ [][C13_OwnRecordOnly]_vars

\* Two calls for different identifiers ran concurrently (neither had
\* returned when the other began), both uploads completed, and each
\* identifier holds the record of its own call.
C13_Witness ==
    \E a, b \in Publishers :
        /\ PublishKey(a) # PublishKey(b)
        /\ a \notin pred[b] /\ b \notin pred[a]
        /\ upload[a].status = "ok" /\ upload[b].status = "ok"
        /\ store[PublishKey(a)] = Resource(buffer[a], hash[a])
        /\ store[PublishKey(b)] = Resource(buffer[b], hash[b])

\* C14: a publish call issues at most one query and at most one upload, the
\* upload only once the query has been answered without failure; a failed
\* query or upload is reported once, the call issues nothing after it, and
\* nothing but a failure is reported.
C14_OneQueryOneUpload ==
    \A t \in Publishers :
        /\ calls[t].query <= 1
        /\ calls[t].upload <= 1
        /\ calls[t].report <= 1
        /\ Issued(t) <=> calls[t].upload = 1
        /\ calls[t].upload = 1 =>
              /\ calls[t].query = 1
              /\ pc[t] = "done"
              /\ response[t] # NoResponse
              /\ ~QueryFailed(t)
        /\ (pc[t] = "done" /\ QueryFailed(t)) =>
              /\ calls[t].report = 1
              /\ calls[t].upload = 0
        /\ upload[t].status = "err" => calls[t].report = 1
        /\ calls[t].report = 1 =>
              \/ pc[t] = "done" /\ QueryFailed(t)
              \/ upload[t].status = "err"

\* A call whose one upload failed after its one query had been answered.
C14_Witness ==
    \E t \in Publishers :
        /\ upload[t].status = "err"
        /\ response[t].ok
        /\ calls[t] = [query |-> 1, upload |-> 1, report |-> 1]

\* --------------------------------------------------------- the empty title
\* C15: the fit of the empty title measures once, at size 96, a layout of
\* no lines and total height 0, and succeeds with font size 96.
C15_EmptyTitleFitsAtStart ==
    \A t \in Active :
        Name(t) = EmptyTitle =>
            /\ ~FitFailed(t)
            /\ Len(measures[t]) <= 1
            /\ \A k \in 1..Len(measures[t]) :
                  /\ measures[t][k].size = StartFontSize
                  /\ measures[t][k].total = 0
            /\ LoopLeft(t) =>
                  /\ FitSucceeded(t)
                  /\ Len(measures[t]) = 1
                  /\ AcceptedSize(t) = StartFontSize
                  /\ fontSize[t] = StartFontSize

\* The empty title accepted at 96 after one measurement.
C15_Witness ==
    \E t \in Active :
        /\ Name(t) = EmptyTitle
        /\ FitSucceeded(t)
        /\ measures[t] = <<[size |-> StartFontSize, w |-> MeasureWidth,
                            total |-> 0]>>
        /\ AcceptedSize(t) = StartFontSize

\* ------------------------------------------------------ concurrent fitting
\* The result of the search for a title on its own, from size fs down: the
\* first size at which the rasterizer's layout is within the available
\* height, 0 when there is none.
RECURSIVE FitAlone(_, _)
FitAlone(name, fs) ==
    IF fs < MinFontSize THEN 0
    ELSE IF ProfileFits(metrics[name], fs) THEN fs
    ELSE FitAlone(name, fs - FontStep)

FitState(t) == <<fontSize[t], textFits[t], ctxFont[t], measures[t], drawn[t]>>

\* C16: concurrent fits of distinct titles do not interfere: a step changes
\* the font size, fit flag, context font, measurements and canvas of at
\* most one call, a call that is inside createSocialImage, and each call
\* ends with the size (or the overflow error) that the search for its title
\* yields on its own.
C16_ResultAsAlone ==
    \A t \in Active :
        LoopLeft(t) =>
            /\ FitFailed(t) <=> FitAlone(Name(t), StartFontSize) = 0
            /\ FitSucceeded(t) =>
                  AcceptedSize(t) = FitAlone(Name(t), StartFontSize)
C16_OwnStateOnly ==
    \A t \in Tasks :
        FitState(t)' # FitState(t) =>
            /\ pc[t] \in {"loadImage", "loop"}
            /\ \A u \in Tasks \ {t} : FitState(u)' = FitState(u)
C16_ConcurrentFitsIndependent ==
    [](C16_ResultAsAlone) /\ [][C16_OwnStateOnly]_vars

\* Of two calls started together for distinct titles, one has been accepted
\* at the last size and the other has failed.
C16_Witness ==
    \E a, b \in Active :
        /\ Name(a) # Name(b)
        /\ FitSucceeded(a) /\ AcceptedSize(a) = MinFontSize
        /\ FitFailed(b)
        /\ Len(measures[a]) = Cardinality(Ladder)
        /\ Len(measures[b]) = Cardinality(Ladder)

C18_MeasuredAtDrawnWidth ==
    \A t \in Tasks :
        /\ \A k \in 1..Len(measures[t]) : measures[t][k].w = maxWidth
        /\ \A k \in 2..Len(drawn[t]) :
              \A m \in 1..Len(measures[t]) : drawn[t][k].w = measures[t][m].w

\* ------------------------------------------------------- skip or upload
\* C19: a call skips only when its query succeeded with a record whose
\* stored hash is the hash of the current bytes; the call then issues no
\* upload, the step in which it skips leaves the store as it was, and with
\* no other call for the identifier the record stays the one found.
C19_SkippedState ==
    \A t \in Publishers :
        outcome[t] = "Skipped" =>
            /\ response[t].ok
            /\ response[t].resource.found
            /\ hash[t] = getImageHash(buffer[t])
            /\ response[t].resource.hash = hash[t]
            /\ ~Issued(t)
            /\ calls[t].upload = 0
            /\ (\A c \in Publishers \ {t} : PublishKey(c) # PublishKey(t))
                  => store[PublishKey(t)] = response[t].resource
C19_SkipStep ==
    \A t \in Publishers :
        (outcome[t] # "Skipped" /\ outcome'[t] = "Skipped")
        => (store' = store /\ upload' = upload)
C19_SkipOnlyOnEqualHash ==
    [](C19_SkippedState) /\ [][C19_SkipStep]_vars

\* A call has skipped on a record that carries the hash of its bytes.
C19_Witness ==
    \E t \in Publishers :
        /\ pc[t] = "done"
        /\ outcome[t] = "Skipped"
        /\ upload[t] = NoUpload
        /\ store[PublishKey(t)].hash = hash[t]

\* The record the query of t found is stale: none, one without a stored
\* hash, or one with another hash than that of the current bytes.
Stale(t) ==
    \/ response[t].http_code = NotFoundCode
    \/ response[t].ok /\ response[t].resource.hash = NoHash
    \/ response[t].ok /\ response[t].resource.hash # hash[t]

\* C20: in each of the three stale cases the call proceeds to upload its
\* bytes and hash to its identifier.
C20_StaleIsUploaded ==
    \A t \in Publishers :
        (pc[t] = "done" /\ Stale(t)) =>
            /\ outcome[t] = "Uploaded"
            /\ Issued(t)
            /\ upload[t].key = PublishKey(t)
            /\ upload[t].bytes = buffer[t]
            /\ upload[t].hash = hash[t]

\* One call found a record without a stored hash, another a record with a
\* hash that is not the hash of its bytes; both went on to upload.
C20_Witness ==
    \E a, b \in Publishers :
        /\ response[a].ok /\ response[a].resource.hash = NoHash
        /\ outcome[a] = "Uploaded" /\ Issued(a)
        /\ response[b].ok
        /\ response[b].resource.hash \notin {NoHash, hash[b]}
        /\ outcome[b] = "Uploaded" /\ Issued(b)

\* ------------------------------------------------------ hash of the record
\* C21: every upload a call issues carries the bytes the call encoded and
\* the hash of exactly those bytes, and a record that uploads of the run
\* have written holds a hash that is the digest of the bytes it holds,
\* also when several uploads for the identifier raced.
C21_StoredHashIsDigest ==
    /\ \A t \in Publishers :
          Issued(t) =>
              /\ upload[t].bytes = buffer[t]
              /\ upload[t].bytes = toBuffer(drawn[t], format, density)
              /\ upload[t].hash = getImageHash(upload[t].bytes)
    /\ \A k \in Keys :
          (\E t \in Publishers : upload[t].status = "ok" /\ PublishKey(t) = k)
          => /\ store[k].found
             /\ store[k].hash = getImageHash(store[k].bytes)

\* Two calls for one identifier with different images raced on a record
\* that was there before; both uploads completed and the record holds the
\* bytes of one of them with their digest.
C21_Witness ==
    \E a, b \in Publishers :
        /\ a # b
        /\ PublishKey(a) = PublishKey(b)
        /\ a \notin pred[b] /\ b \notin pred[a]
        /\ response[a].ok /\ response[b].ok
        /\ response[a].resource = response[b].resource
        /\ upload[a].status = "ok" /\ upload[b].status = "ok"
        /\ store[PublishKey(a)].bytes = buffer[b]
        /\ buffer[a] # buffer[b]
        /\ store[PublishKey(a)].hash = getImageHash(buffer[b])

\* ------------------------------------------------------------- the ladder
\* C22: the sizes measured are 96, 92, 88, ... in this order, each once,
\* none below 24, above 96 or off the ladder; the font set on the context
\* and the font of the drawn title are ladder sizes; and a search in which
\* every size above 24 overflowed has measured at 24.
C22_MeasuresAreLadderPrefix ==
    \A t \in Tasks :
        /\ Len(measures[t]) <= Cardinality(Ladder)
        /\ \A k \in 1..Len(measures[t]) :
              /\ measures[t][k].size = StartFontSize - (k - 1) * FontStep
              /\ measures[t][k].size \in Ladder
        /\ ctxFont[t] \in Ladder \cup {0}
        /\ \A k \in 2..Len(drawn[t]) : drawn[t][k].font \in Ladder
        /\ (LoopLeft(t) /\ Name(t) # EmptyTitle
              /\ \A s \in Ladder \ {MinFontSize} : ~FitsAt(Name(t), s))
           => /\ Len(measures[t]) = Cardinality(Ladder)
              /\ measures[t][Len(measures[t])].size = MinFontSize

\* A search that measured the whole ladder, found the title to fit at 24
\* and drew it at 24.
C22_Witness ==
    \E t \in Tasks :
        /\ Len(measures[t]) = Cardinality(Ladder)
        /\ measures[t][Cardinality(Ladder)].size = MinFontSize
        /\ ~Overflows(measures[t][Cardinality(Ladder)].total)
        /\ Len(drawn[t]) = 3
        /\ drawn[t][3].font = MinFontSize

\* ------------------------------------------------------------ termination
\* C23: the search terminates, whether or not a size fits.  Inside the loop
\* the number of measurements taken is the number of sizes left behind
\* (plus one once a size was accepted), at most 19; the loop is left with
\* the last measurement the first that did not overflow, or with all 19
\* overflowing and the size below 24; and a call inside the loop always
\* leaves it.
C23_Bounded ==
    \A t \in Tasks :
        /\ Len(measures[t]) <= Cardinality(Ladder)
        /\ pc[t] = "loop" =>
              Len(measures[t]) =
                  (StartFontSize - fontSize[t]) \div FontStep
                      + (IF textFits[t] THEN 1 ELSE 0)
        /\ FitSucceeded(t) =>
              /\ Len(measures[t]) >= 1
              /\ ~Overflows(measures[t][Len(measures[t])].total)
              /\ \A k \in 1..(Len(measures[t]) - 1) :
                    Overflows(measures[t][k].total)
        /\ FitFailed(t) =>
              /\ Len(measures[t]) = Cardinality(Ladder)
              /\ fontSize[t] < MinFontSize
              /\ \A k \in 1..Len(measures[t]) : Overflows(measures[t][k].total)
C23_FitTerminates ==
    /\ [](C23_Bounded)
    /\ (\E t \in Tasks : pc[t] = "loop") ~> (\A t \in Tasks : pc[t] # "loop")

\* A search has ended below 24 after 19 overflowing measurements.
C23_Witness ==
    \E t \in Tasks :
        /\ FitFailed(t)
        /\ fontSize[t] = MinFontSize - FontStep
        /\ Len(measures[t]) = Cardinality(Ladder)
        /\ \A k \in 1..Len(measures[t]) : Overflows(measures[t][k].total)

\* ------------------------------------------------------ the earlier revision
EarlierTasks == {t \in Active : rev[t] = EarlierRevision}
FinalTasks == {t \in Active : rev[t] = FinalRevision}

\* C24: the search of the earlier revision goes on only until the text
\* fits or the font size is less than 24: it takes no measurement below
\* 24, and once the size is below 24 without a fit it has thrown.
C24_EarlierStopsBelowMin ==
    \A t \in EarlierTasks :
        /\ \A k \in 1..Len(measures[t]) : measures[t][k].size >= MinFontSize
        /\ (~textFits[t] /\ fontSize[t] < MinFontSize /\ pc[t] = "loop")
              => Len(measures[t]) = Cardinality(Ladder)

\* ------------------------------------------------------------ the boundary
\* C25: a size is accepted when the measured total is less than or equal
\* to the available height, 530 itself included, and is passed over only
\* when the total is strictly greater: a measurement within the available
\* height is the last one, sets the fit flag and gives the drawn size; a
\* measurement above it lowers the size by one step.
C25_AcceptedIffWithinHeight ==
    \A t \in Tasks :
        \A k \in 1..Len(measures[t]) :
            /\ measures[t][k].total <= height - textY =>
                  /\ k = Len(measures[t])
                  /\ textFits[t]
                  /\ fontSize[t] = measures[t][k].size
                  /\ ~FitFailed(t)
                  /\ FitSucceeded(t) => AcceptedSize(t) = measures[t][k].size
            /\ measures[t][k].total > height - textY =>
                  /\ fontSize[t] < measures[t][k].size
                  /\ FitSucceeded(t) => AcceptedSize(t) < measures[t][k].size

\* A title drawn at a size below 96 at which its total height is exactly
\* the available height.
C25_Witness ==
    \E t \in Tasks :
        /\ FitSucceeded(t)
        /\ Len(measures[t]) > 1
        /\ measures[t][Len(measures[t])].total = height - textY
        /\ AcceptedSize(t) = measures[t][Len(measures[t])].size

\* ----------------------------------------------------------- draw order
Ops(t) == [k \in 1..Len(drawn[t]) |-> drawn[t][k].op]

\* C26 as stated: nothing is drawn before a font size is accepted, the
\* operations are background, outline stroke, fill at the accepted size,
\* and a fit that ended in the overflow error has drawn nothing.
C26_DrawsOnlyOnAcceptance ==
    \A t \in Tasks :
        /\ drawn[t] # << >> =>
              /\ textFits[t]
              /\ Ops(t) = <<"drawImage", "strokeText", "fillText">>
              /\ drawn[t][2].font = fontSize[t]
              /\ drawn[t][3].font = fontSize[t]
        /\ FitFailed(t) => drawn[t] = << >>

\* C26, amended: the background is drawn first, before the search; the
\* title is drawn only on acceptance, stroked and then filled with the
\* accepted font size in effect; a fit that ended in the overflow error
\* has drawn the background and nothing else.
C26_TitleDrawnOnAcceptance ==
    \A t \in Tasks :
        /\ pc[t] \in {"idle", "loadImage"} => drawn[t] = << >>
        /\ pc[t] = "loop" => Ops(t) = <<"drawImage">>
        /\ FitFailed(t) => Ops(t) = <<"drawImage">>
        /\ FitSucceeded(t) =>
              /\ textFits[t]
              /\ Ops(t) = <<"drawImage", "strokeText", "fillText">>
              /\ drawn[t][2].text = Name(t) /\ drawn[t][3].text = Name(t)
              /\ drawn[t][2].font = fontSize[t]
              /\ drawn[t][3].font = fontSize[t]
              /\ ctxFont[t] = fontSize[t]
              /\ measures[t][Len(measures[t])].size = fontSize[t]
              /\ ~Overflows(measures[t][Len(measures[t])].total)

\* The background, then the title stroked and filled at an accepted size
\* below 96, the size of the last measurement.
C26_Witness ==
    \E t \in Tasks :
        /\ FitSucceeded(t)
        /\ Ops(t) = <<"drawImage", "strokeText", "fillText">>
        /\ drawn[t][3].font < StartFontSize
        /\ drawn[t][3].font = measures[t][Len(measures[t])].size

\* ------------------------------------------------- sequences of publish calls
SameKey(k) == {t \in Publishers : PublishKey(t) = k}
\* The hash the store held for the identifier when the query of t was
\* answered.
StoredBefore(t) ==
    IF response[t].ok THEN response[t].resource.hash ELSE NoHash
\* The calls for k form a sequence without overlap: each has returned, no
\* query and no upload failed, and of any two one began after the other
\* had returned and its upload had completed.
Sequential(k) ==
    /\ SameKey(k) # {}
    /\ \A t \in SameKey(k) :
          /\ pc[t] = "done"
          /\ ~QueryFailed(t)
          /\ upload[t].status \in {"none", "ok"}
    /\ \A a, b \in SameKey(k) : a # b => (a \in after[b] \/ b \in after[a])

\* C27: after a sequence of calls for one identifier without overlap and
\* without failure, the stored hash is the hash of the last call's content,
\* each call after the first found the hash of the call before it, and the
\* number of uploads issued is the number of calls whose hash differed from
\* the hash stored when they were made.
C27_SequenceOfCalls ==
    \A k \in Keys :
        Sequential(k) =>
            LET P == SameKey(k)
                last == CHOOSE l \in P : \A t \in P \ {l} : t \in after[l]
            IN  /\ store[k].found
                /\ store[k].hash = hash[last]
                /\ \A a, b \in P :
                      ( /\ a \in after[b]
                        /\ ~\E c \in P : a \in after[c] /\ c \in after[b] )
                      => StoredBefore(b) = hash[a]
                /\ Cardinality({t \in P : Issued(t)})
                      = Cardinality({t \in P : hash[t] # StoredBefore(t)})

\* Two calls with the same content, the second begun after the upload of
\* the first had completed: one upload, the second call skipped.
C27_Witness ==
    \E a, b \in Publishers :
        /\ PublishKey(a) = PublishKey(b)
        /\ Sequential(PublishKey(a))
        /\ a \in after[b]
        /\ hash[a] = hash[b]
        /\ Issued(a) /\ ~Issued(b)
        /\ outcome[b] = "Skipped"
        /\ store[PublishKey(a)].hash = hash[b]

\* ------------------------------------------------------------------ the key
\* C28: within a call the key that is queried is the key the upload is
\* stored under, the folder og-images joined with the slug of the title;
\* calls for titles with the same slug use the same key whatever their
\* image is.
C28_QueryKeyIsUploadKey ==
    \A t \in Publishers :
        /\ response[t] # NoResponse =>
              response[t].key = Key(folder, slugifyName(Name(t)))
        /\ Issued(t) =>
              /\ upload[t].key = response[t].key
              /\ upload[t].key = Key(folder, slugifyName(Name(t)))
        /\ \A u \in Publishers :
              (Issued(t) /\ Issued(u)
                  /\ slugifyName(Name(t)) = slugifyName(Name(u)))
              => upload[t].key = upload[u].key

\* Two calls with different images have queried and uploaded under one and
\* the same key.
C28_Witness ==
    \E a, b \in Publishers :
        /\ buffer[a] # buffer[b]
        /\ Issued(a) /\ Issued(b)
        /\ response[a].key = upload[a].key
        /\ response[b].key = upload[b].key
        /\ upload[a].key = upload[b].key

\* ------------------------------------------------ the two revisions agree
\* The title fits at some size of the ladder.
FitsSomewhere(name) == \E s \in Ladder : FitsAt(name, s)

\* C29: for a title that fits at some size of the ladder the earlier
\* revision of the search and the final one take the same measurements in
\* the same order (at every moment the measurements of the one that is
\* behind are the first measurements of the other), neither of them
\* throws, and once both have left the loop they have measured the same
\* sequence and stroked the title at the same font size.
C29_RevisionsAgree ==
    \A a \in EarlierTasks : \A b \in FinalTasks :
        (Name(a) = Name(b) /\ FitsSomewhere(Name(a))) =>
            /\ \A k \in 1..Len(measures[a]) :
                  k <= Len(measures[b]) => measures[a][k] = measures[b][k]
            /\ ~FitFailed(a) /\ ~FitFailed(b)
            /\ (LoopLeft(a) /\ LoopLeft(b)) =>
                  /\ measures[a] = measures[b]
                  /\ FitSucceeded(a) /\ FitSucceeded(b)
                  /\ AcceptedSize(a) = AcceptedSize(b)
                  /\ fontSize[a] = fontSize[b]

\* Both revisions have fitted a title that overflows at every size above
\* the smallest: each measured the whole ladder and accepted 24.
C29_Witness ==
    \E a \in EarlierTasks : \E b \in FinalTasks :
        /\ Name(a) = Name(b)
        /\ \A s \in Ladder : FitsAt(Name(a), s) <=> s = MinFontSize
        /\ FitSucceeded(a) /\ FitSucceeded(b)
        /\ Len(measures[a]) = Cardinality(Ladder)
        /\ measures[a] = measures[b]
        /\ AcceptedSize(a) = MinFontSize
        /\ AcceptedSize(b) = MinFontSize
====
